---- MODULE Spec2Model ----
(***************************************************************************)
(* Model of src/main.py, the "Katalog Buku API": two in-memory dicts,      *)
(* books and orders, and the request handlers that read and write them.    *)
(*                                                                         *)
(* Spec     : requests are serialized, each handler runs to completion.    *)
(* SpecRace : confirm_order runs in worker threads whose statements        *)
(*            interleave (FastAPI runs "def" handlers in a thread pool).   *)
(***************************************************************************)
EXTENDS Integers, FiniteSets, Sequences, TLC

\* ---------------------------------------------------------------- bounds
MaxBooks == 1        \* number of books create_book may create
MaxOrders == 2       \* number of orders create_order may create
MaxStock == 1        \* largest stock value a request may ask for or reach

MaxQty == MaxStock                      \* qty ranges over 1..MaxQty
BookIds == 1 .. MaxBooks                \* ids create_book can assign
OrderIds == 1 .. MaxOrders              \* ids create_order can assign
NoId == 0                               \* an id no uuid4 call ever returned
BookIdArgs == BookIds \cup {NoId}       \* book ids a client may send
OrderIdArgs == OrderIds \cup {NoId}     \* order ids a client may send
Titles == {"Dune"}
Authors == {"Herbert"}
Customers == {"ani"}
Stocks == 0 .. MaxStock
Deltas == (0 - MaxStock) .. MaxStock
Threads == {"t1", "t2"}

\* Optional[int]: the empty set is None, {v} is the value v.
None == {}
Some(v) == {v}
Val(opt) == CHOOSE v \in opt : TRUE

VARIABLES
    books,      \* dict book_id -> book record             (main.py:9)
    orders,     \* dict order_id -> order record           (main.py:10)
    last,       \* the response of the latest completed request of Spec
    pc,         \* per worker thread: the statement of confirm_order it is at
    t_order,    \* per worker thread: the order_id argument of its request
    book_keys,  \* the keys of `books` in insertion order (a dict keeps it)
    ledger      \* history of SpecLedger: what the accepted requests add up to

store == <<books, orders>>
thr == <<pc, t_order>>
aux == <<book_keys, ledger>>
vars == <<books, orders, last, pc, t_order, book_keys, ledger>>

\* ------------------------------------------------------------- responses
HTTPException(status_code, detail) == [code |-> status_code, detail |-> detail]
Ok == [code |-> 200, detail |-> "ok"]

\* What `last` records: the handler that ran and the response it gave.
Served(op, resp) == [op |-> op, code |-> resp.code, detail |-> resp.detail]
NoResp == Served("none", [code |-> 0, detail |-> "none"])

\* The ledger before any request.
NoLedger == [free |-> TRUE, acct |-> <<>>]

\* ------------------------------------------------------- request models
BookCreate == [title : Titles, author : Authors, stock : Stocks]

BookStockUpdate ==
    [set_stock : {None} \cup {Some(v) : v \in Stocks},
     delta : {None} \cup {Some(d) : d \in Deltas}]

OrderCreate == [book_id : BookIdArgs, qty : 1 .. MaxQty, customer_name : Customers]

\* uuid4(): an id distinct from every id handed out so far.  The ids are opaque
\* (the handlers only compare them for equality), so the model hands them out
\* in increasing order.
uuid4(space, used) == {i \in space \ used : \A j \in space \ used : i <= j}

\* ------------------------------------------------------------ create_book
NewBook_WrongId(book_id, payload) ==
    [id |-> NoId, title |-> payload.title,
     author |-> payload.author, stock |-> payload.stock]

NewBook(book_id, payload) ==
    [id |-> book_id, title |-> payload.title,
     author |-> payload.author, stock |-> payload.stock]

\* d[k] = v on a dict: a present key is overwritten and keeps its place, a
\* new key goes to the end.
DictSet(d, k, v) == (k :> v) @@ d
KeysAfterSet(keys, k) ==
    IF \E i \in 1 .. Len(keys) : keys[i] = k THEN keys ELSE Append(keys, k)

create_book_handler(bks, book_id, payload) ==
    [resp |-> Ok, books |-> DictSet(bks, book_id, NewBook(book_id, payload))]

\* --------------------------------------------------------------- get_book
get_book_handler(bks, book_id) ==
    IF book_id \notin DOMAIN bks
    THEN HTTPException(404, "Buku tidak ditemukan")
    ELSE Ok

\* ----------------------------------------------------------- update_stock
NeitherGiven(payload) == payload.set_stock = None /\ payload.delta = None
BothGiven_Never(payload) == FALSE
BothGiven(payload) == payload.set_stock # None /\ payload.delta # None
SetGiven(payload) == payload.set_stock # None
NewStock_Minus(stock, delta) == stock - delta
NewStock(stock, delta) == stock + delta
GoesNegative_OffByOne(new_stock) == new_stock < 0 - 1
GoesNegative(new_stock) == new_stock < 0

update_stock_handler_ValidateFirst(bks, book_id, payload) ==
    IF NeitherGiven(payload)
    THEN [resp |-> HTTPException(400, "Isi set_stock atau delta"), books |-> bks]
    ELSE IF BothGiven(payload)
    THEN [resp |-> HTTPException(400, "Pilih salah satu: set_stock atau delta"),
          books |-> bks]
    ELSE IF book_id \notin DOMAIN bks
    THEN [resp |-> HTTPException(404, "Buku tidak ditemukan"), books |-> bks]
    ELSE IF SetGiven(payload)
    THEN [resp |-> Ok,
          books |-> [bks EXCEPT ![book_id].stock = Val(payload.set_stock)]]
    ELSE LET new_stock == NewStock(bks[book_id].stock, Val(payload.delta))
         IN  IF GoesNegative(new_stock)
             THEN [resp |-> HTTPException(400, "Stok tidak boleh negatif"),
                   books |-> bks]
             ELSE [resp |-> Ok, books |-> [bks EXCEPT ![book_id].stock = new_stock]]

update_stock_handler(bks, book_id, payload) ==
    IF book_id \notin DOMAIN bks
    THEN [resp |-> HTTPException(404, "Buku tidak ditemukan"), books |-> bks]
    ELSE IF NeitherGiven(payload)
    THEN [resp |-> HTTPException(400, "Isi set_stock atau delta"), books |-> bks]
    ELSE IF BothGiven(payload)
    THEN [resp |-> HTTPException(400, "Pilih salah satu: set_stock atau delta"),
          books |-> bks]
    ELSE IF SetGiven(payload)
    THEN [resp |-> Ok,
          books |-> [bks EXCEPT ![book_id].stock = Val(payload.set_stock)]]
    ELSE LET new_stock == NewStock(bks[book_id].stock, Val(payload.delta))
         IN  IF GoesNegative(new_stock)
             THEN [resp |-> HTTPException(400, "Stok tidak boleh negatif"),
                   books |-> bks]
             ELSE [resp |-> Ok, books |-> [bks EXCEPT ![book_id].stock = new_stock]]

\* ----------------------------------------------------------- create_order
NewOrder_Confirmed(order_id, payload) ==
    [id |-> order_id, book_id |-> payload.book_id, qty |-> payload.qty,
     customer_name |-> payload.customer_name, status |-> "confirmed"]

NewOrder(order_id, payload) ==
    [id |-> order_id, book_id |-> payload.book_id, qty |-> payload.qty,
     customer_name |-> payload.customer_name, status |-> "pending"]

create_order_handler_NoLookup(bks, ords, order_id, payload) ==
    [resp |-> Ok, orders |-> DictSet(ords, order_id, NewOrder(order_id, payload))]

create_order_handler_ChecksStock(bks, ords, order_id, payload) ==
    IF payload.book_id \notin DOMAIN bks
    THEN [resp |-> HTTPException(404, "Buku tidak ditemukan"), orders |-> ords]
    ELSE IF bks[payload.book_id].stock < payload.qty
    THEN [resp |-> HTTPException(400, "Stok tidak mencukupi"), orders |-> ords]
    ELSE [resp |-> Ok, orders |-> DictSet(ords, order_id, NewOrder(order_id, payload))]

create_order_handler(bks, ords, order_id, payload) ==
    IF payload.book_id \notin DOMAIN bks
    THEN [resp |-> HTTPException(404, "Buku tidak ditemukan"), orders |-> ords]
    ELSE [resp |-> Ok, orders |-> DictSet(ords, order_id, NewOrder(order_id, payload))]

\* -------------------------------------------------------------- get_order
get_order_handler(ords, order_id) ==
    IF order_id \notin DOMAIN ords
    THEN HTTPException(404, "Pesanan tidak ditemukan")
    ELSE Ok

\* ---------------------------------------------------------- confirm_order
NotPending_Never(order) == order.status = "cancelled"
NotPending(order) == order.status # "pending"
Insufficient_Boundary(book, order) == book.stock <= order.qty
Insufficient(book, order) == book.stock < order.qty
Decrement_Floor(book, order) ==
    [book EXCEPT !.stock = IF @ - order.qty < 0 THEN 0 ELSE @ - order.qty]
Decrement_Twice(book, order) == [book EXCEPT !.stock = @ - 2 * order.qty]
Decrement(book, order) == [book EXCEPT !.stock = @ - order.qty]
Confirm_ResetQty(order) == [order EXCEPT !.status = "confirmed", !.qty = 0]
Confirm(order) == [order EXCEPT !.status = "confirmed"]

confirm_order_handler_WriteFirst(bks, ords, order_id) ==
    IF order_id \notin DOMAIN ords
    THEN [resp |-> HTTPException(404, "Pesanan tidak ditemukan"),
          books |-> bks, orders |-> ords]
    ELSE IF NotPending(ords[order_id])
    THEN [resp |-> HTTPException(400, "Pesanan sudah diproses / bukan pending"),
          books |-> bks, orders |-> ords]
    ELSE IF ords[order_id].book_id \notin DOMAIN bks
    THEN [resp |-> HTTPException(404, "Buku pada pesanan tidak ditemukan"),
          books |-> bks, orders |-> ords]
    ELSE IF Insufficient(bks[ords[order_id].book_id], ords[order_id])
    THEN [resp |-> HTTPException(400, "Stok tidak mencukupi untuk konfirmasi"),
          books |-> bks, orders |-> [ords EXCEPT ![order_id] = Confirm(@)]]
    ELSE [resp |-> Ok,
          books |-> [bks EXCEPT ![ords[order_id].book_id] =
                                    Decrement(@, ords[order_id])],
          orders |-> [ords EXCEPT ![order_id] = Confirm(@)]]

confirm_order_handler_NoDecrement(bks, ords, order_id) ==
    IF order_id \notin DOMAIN ords
    THEN [resp |-> HTTPException(404, "Pesanan tidak ditemukan"),
          books |-> bks, orders |-> ords]
    ELSE IF NotPending(ords[order_id])
    THEN [resp |-> HTTPException(400, "Pesanan sudah diproses / bukan pending"),
          books |-> bks, orders |-> ords]
    ELSE IF ords[order_id].book_id \notin DOMAIN bks
    THEN [resp |-> HTTPException(404, "Buku pada pesanan tidak ditemukan"),
          books |-> bks, orders |-> ords]
    ELSE IF Insufficient(bks[ords[order_id].book_id], ords[order_id])
    THEN [resp |-> HTTPException(400, "Stok tidak mencukupi untuk konfirmasi"),
          books |-> bks, orders |-> ords]
    ELSE [resp |-> Ok,
          books |-> bks,
          orders |-> [ords EXCEPT ![order_id] = Confirm(@)]]

confirm_order_handler(bks, ords, order_id) ==
    IF order_id \notin DOMAIN ords
    THEN [resp |-> HTTPException(404, "Pesanan tidak ditemukan"),
          books |-> bks, orders |-> ords]
    ELSE IF NotPending(ords[order_id])
    THEN [resp |-> HTTPException(400, "Pesanan sudah diproses / bukan pending"),
          books |-> bks, orders |-> ords]
    ELSE IF ords[order_id].book_id \notin DOMAIN bks
    THEN [resp |-> HTTPException(404, "Buku pada pesanan tidak ditemukan"),
          books |-> bks, orders |-> ords]
    ELSE IF Insufficient(bks[ords[order_id].book_id], ords[order_id])
    THEN [resp |-> HTTPException(400, "Stok tidak mencukupi untuk konfirmasi"),
          books |-> bks, orders |-> ords]
    ELSE [resp |-> Ok,
          books |-> [bks EXCEPT ![ords[order_id].book_id] =
                                    Decrement(@, ords[order_id])],
          orders |-> [ords EXCEPT ![order_id] = Confirm(@)]]

\* ------------------------------------------------- the state after import
Init ==
    /\ books = <<>>
    /\ orders = <<>>
    /\ last = NoResp
    /\ pc = [t \in Threads |-> "idle"]
    /\ t_order = [t \in Threads |-> NoId]
    /\ book_keys = <<>>
    /\ ledger = NoLedger

\* ------------------------------------- serialized requests (one per step)
create_book(payload) ==
    \E book_id \in uuid4(BookIds, DOMAIN books) :
        LET r == create_book_handler(books, book_id, payload)
        IN  /\ books' = r.books
            /\ book_keys' = KeysAfterSet(book_keys, book_id)
            /\ last' = Served("create_book", r.resp)
            /\ UNCHANGED <<orders, thr, ledger>>

get_book(book_id) ==
    /\ last' = Served("get_book", get_book_handler(books, book_id))
    /\ UNCHANGED <<store, thr, aux>>

update_stock(book_id, payload) ==
    LET r == update_stock_handler(books, book_id, payload)
    IN  /\ \A b \in DOMAIN r.books : r.books[b].stock <= MaxStock
        /\ books' = r.books
        /\ last' = Served("update_stock", r.resp)
        /\ UNCHANGED <<orders, thr, aux>>

create_order(payload) ==
    \* line 87: uuid4 is only called once the book was found
    \E order_id \in IF payload.book_id \in DOMAIN books
                     THEN uuid4(OrderIds, DOMAIN orders)
                     ELSE {NoId} :
        LET r == create_order_handler(books, orders, order_id, payload)
        IN  /\ orders' = r.orders
            /\ last' = Served("create_order", r.resp)
            /\ UNCHANGED <<books, thr, aux>>

get_order(order_id) ==
    /\ last' = Served("get_order", get_order_handler(orders, order_id))
    /\ UNCHANGED <<store, thr, aux>>

confirm_order(order_id) ==
    LET r == confirm_order_handler(books, orders, order_id)
    IN  /\ books' = r.books
        /\ orders' = r.orders
        /\ last' = Served("confirm_order", r.resp)
        /\ UNCHANGED <<thr, aux>>

Next ==
    \/ \E payload \in BookCreate : create_book(payload)
    \/ \E book_id \in BookIdArgs : get_book(book_id)
    \/ \E book_id \in BookIdArgs, payload \in BookStockUpdate :
           update_stock(book_id, payload)
    \/ \E payload \in OrderCreate : create_order(payload)
    \/ \E order_id \in OrderIdArgs : get_order(order_id)
    \/ \E order_id \in OrderIdArgs : confirm_order(order_id)

Spec == Init /\ [][Next]_vars

\* ------------------------------------------------------------------------
\* Properties of the serialized requests (Spec)
\* ------------------------------------------------------------------------
ErrNegative == HTTPException(400, "Stok tidak boleh negatif")
ErrNotPending == HTTPException(400, "Pesanan sudah diproses / bukan pending")
ErrInsufficient == HTTPException(400, "Stok tidak mencukupi untuk konfirmasi")
ErrNoBook == HTTPException(404, "Buku tidak ditemukan")
ErrNeither == HTTPException(400, "Isi set_stock atau delta")
ErrBoth == HTTPException(400, "Pilih salah satu: set_stock atau delta")

Pending(o) == o \in DOMAIN orders /\ orders[o].status = "pending"
Confirmed(o) == o \in DOMAIN orders /\ orders[o].status = "confirmed"
StockOf(o) == books[orders[o].book_id].stock

\* C1: with requests serialized and inputs the request models accept, every
\* book in `books` has stock >= 0 in every reachable state.
C1_StockNonNegative ==
    \A b \in DOMAIN books : books[b].stock >= 0

\* C1 witness: a delta that would take a stock of 0 below zero was refused.
C1_Witness ==
    /\ last = Served("update_stock", ErrNegative)
    /\ \E b \in DOMAIN books : books[b].stock = 0

\* C2: confirm_order succeeds at most once per order id.  A confirm_order
\* succeeds only on a pending order and leaves it confirmed; a confirmed order
\* stays confirmed through every request (update_stock included); and a
\* confirm_order on a confirmed order answers 400 "not pending" and changes
\* neither the orders nor any book.
C2_ConfirmAtMostOnce ==
    [][\A o \in OrderIds :
        /\ (confirm_order(o) /\ last'.code = 200)
              => (Pending(o) /\ orders'[o].status = "confirmed")
        /\ Confirmed(o) => (o \in DOMAIN orders' /\ orders'[o].status = "confirmed")
        /\ (Confirmed(o) /\ confirm_order(o))
              => (/\ last' = Served("confirm_order", ErrNotPending)
                  /\ books' = books
                  /\ orders' = orders)]_vars

\* C2 witness: a second confirm_order was refused as "not pending" although
\* update_stock had meanwhile raised the stock back to cover the qty.
C2_Witness ==
    /\ last = Served("confirm_order", ErrNotPending)
    /\ \A o \in DOMAIN orders : Confirmed(o) /\ StockOf(o) >= orders[o].qty
    /\ orders # <<>>

\* C3: confirm_order(id) succeeds exactly when the order exists, is pending,
\* its book exists and book.stock >= order.qty (equality included); on success
\* the book's stock is its former stock minus order.qty and the order is
\* confirmed.
C3_Precondition(o) ==
    /\ o \in DOMAIN orders
    /\ orders[o].status = "pending"
    /\ orders[o].book_id \in DOMAIN books
    /\ books[orders[o].book_id].stock >= orders[o].qty

C3_ConfirmExactly ==
    [][\A o \in OrderIdArgs :
        confirm_order(o) =>
            /\ (last'.code = 200) <=> C3_Precondition(o)
            /\ C3_Precondition(o) =>
                  /\ books'[orders[o].book_id].stock
                        = books[orders[o].book_id].stock - orders[o].qty
                  /\ orders'[o].status = "confirmed"]_vars

\* C3 witness: a confirm_order succeeded at the boundary stock = qty and left
\* the stock at 0.
C3_Witness ==
    /\ last = Served("confirm_order", Ok)
    /\ \E o \in DOMAIN orders : Confirmed(o) /\ StockOf(o) = 0


\* C4: confirm_order on a pending order whose book has stock < order.qty
\* answers 400 "insufficient stock" and changes neither the book nor the order
\* (it stays pending); a confirm_order on a pending order whose book's stock has
\* reached order.qty (update_stock raised it) succeeds.
C4_InsufficientKeepsState ==
    [][\A o \in OrderIds :
        (Pending(o) /\ orders[o].book_id \in DOMAIN books /\ confirm_order(o)) =>
            IF StockOf(o) < orders[o].qty
            THEN /\ last' = Served("confirm_order", ErrInsufficient)
                 /\ books' = books
                 /\ orders' = orders
                 /\ orders'[o].status = "pending"
            ELSE /\ last' = Served("confirm_order", Ok)
                 /\ orders'[o].status = "confirmed"]_vars

\* C4 witness: a confirm_order was refused for insufficient stock and the
\* order is still pending.
C4_Witness ==
    /\ last = Served("confirm_order", ErrInsufficient)
    /\ \E o \in DOMAIN orders : Pending(o) /\ StockOf(o) < orders[o].qty

\* C5: an order's status is always pending or confirmed; it is pending right
\* after create_order; the only change it undergoes is pending -> confirmed,
\* made by a successful confirm_order on that order; a confirmed order stays
\* confirmed, and no order is ever removed.
C5_StatusMachine ==
    [][\A o \in OrderIds :
        /\ o \in DOMAIN orders' => orders'[o].status \in {"pending", "confirmed"}
        /\ (o \notin DOMAIN orders /\ o \in DOMAIN orders')
              => (orders'[o].status = "pending" /\ last'.op = "create_order")
        /\ o \in DOMAIN orders =>
              /\ o \in DOMAIN orders'
              /\ orders'[o].status # orders[o].status =>
                    /\ orders[o].status = "pending"
                    /\ orders'[o].status = "confirmed"
                    /\ confirm_order(o)
                    /\ last' = Served("confirm_order", Ok)]_vars

\* C5 witness: one order is confirmed and an order created at any time is
\* pending beside it.
C5_Witness ==
    /\ \E o \in DOMAIN orders : Confirmed(o)
    /\ \E o \in DOMAIN orders : Pending(o)
    /\ last.op \in {"create_order", "update_stock"}

\* C6: on an existing book, update_stock with only delta sets the stock to
\* current + delta when that is >= 0 and otherwise answers 400 "stock cannot
\* go negative" and leaves the stock; update_stock with only set_stock = v
\* (v = 0 included) replaces the stock by v.  Stated of every reachable state:
\* each such request is served, and no step it can take does otherwise.
C6_DeltaAndSet ==
    \A b \in DOMAIN books :
        /\ \A d \in Deltas :
              LET p == [set_stock |-> {}, delta |-> {d}]
              IN  /\ books[b].stock + d <= MaxStock => ENABLED update_stock(b, p)
                  /\ ~ ENABLED
                        /\ update_stock(b, p)
                        /\ ~ IF books[b].stock + d >= 0
                             THEN /\ books'[b].stock = books[b].stock + d
                                  /\ last' = Served("update_stock", Ok)
                             ELSE /\ books' = books
                                  /\ last' = Served("update_stock", ErrNegative)
        /\ \A v \in Stocks :
              LET p == [set_stock |-> {v}, delta |-> {}]
              IN  /\ ENABLED update_stock(b, p)
                  /\ ~ ENABLED
                        /\ update_stock(b, p)
                        /\ ~ /\ books'[b].stock = v
                             /\ last' = Served("update_stock", Ok)

\* C6 witness: an update_stock succeeded and left a stock of 0 (set_stock = 0,
\* or a delta down to the boundary).
C6_Witness ==
    /\ last = Served("update_stock", Ok)
    /\ \E b \in DOMAIN books : books[b].stock = 0

\* C7: update_stock on an existing book with both set_stock and delta given,
\* or with neither, answers 400 and changes neither a book nor an order,
\* whatever the two values are.  Stated of every reachable state: each such
\* request is served, and no step it can take does otherwise.
C7_BothOrNeither ==
    \A b \in DOMAIN books, p \in BookStockUpdate :
        (p.set_stock = {} <=> p.delta = {}) =>
            /\ ENABLED update_stock(b, p)
            /\ ~ ENABLED
                  /\ update_stock(b, p)
                  /\ ~ /\ last' = Served("update_stock",
                                          IF p.delta = {} THEN ErrNeither ELSE ErrBoth)
                       /\ books' = books
                       /\ orders' = orders

\* C7 witness: an update_stock carrying both fields was refused.
C7_Witness ==
    /\ last = Served("update_stock", ErrBoth)
    /\ books # <<>>

\* C8: create_order with a book_id that is no key of `books` answers 404 and
\* changes neither `orders` nor `books`; so every order in `orders` refers to
\* a book_id that is a key of `books`.
C8_OrderNeedsBook ==
    [][/\ \A p \in OrderCreate :
            (p.book_id \notin DOMAIN books /\ create_order(p)) =>
                /\ last' = Served("create_order", ErrNoBook)
                /\ orders' = orders
                /\ books' = books
       /\ \A o \in DOMAIN orders' : orders'[o].book_id \in DOMAIN books']_vars

\* C8 witness: a create_order for an unknown book was refused while orders
\* for known books exist.
C8_Witness ==
    /\ last = Served("create_order", ErrNoBook)
    /\ orders # <<>>

\* C9: create_order neither checks nor reserves stock: for an existing book it
\* succeeds for every qty > 0, adds the pending order and leaves `books` as it
\* was; a book's stock changes only in a successful update_stock on that book
\* or a successful confirm_order of an order on that book.
C9_NoReservation ==
    [][/\ \A p \in OrderCreate :
            (p.book_id \in DOMAIN books /\ create_order(p)) =>
                /\ last' = Served("create_order", Ok)
                /\ books' = books
                /\ \E o \in DOMAIN orders' \ DOMAIN orders :
                       /\ orders'[o].book_id = p.book_id
                       /\ orders'[o].qty = p.qty
                       /\ orders'[o].status = "pending"
       /\ \A b \in DOMAIN books :
            (b \in DOMAIN books' /\ books'[b].stock # books[b].stock) =>
                /\ last'.code = 200
                /\ \/ \E p \in BookStockUpdate : update_stock(b, p)
                   \/ \E o \in DOMAIN orders :
                          orders[o].book_id = b /\ confirm_order(o)]_vars

\* C9 witness: create_order just succeeded and two pending orders on one book
\* each fit its stock while together they exceed it.
C9_Witness ==
    /\ last = Served("create_order", Ok)
    /\ \E o1, o2 \in DOMAIN orders :
          /\ o1 # o2
          /\ Pending(o1) /\ Pending(o2)
          /\ orders[o1].book_id = orders[o2].book_id
          /\ orders[o1].qty <= StockOf(o1)
          /\ orders[o2].qty <= StockOf(o2)
          /\ orders[o1].qty + orders[o2].qty > StockOf(o1)

C13_Immutable ==
    /\ DOMAIN books \subseteq DOMAIN books'
    /\ DOMAIN orders \subseteq DOMAIN orders'
    /\ \A b \in DOMAIN books :
          books'[b] = [books[b] EXCEPT !.stock = books'[b].stock]
    /\ \A o \in DOMAIN orders :
          orders'[o] = [orders[o] EXCEPT !.status = orders'[o].status]

\* A step that differs from the state before it at most in the status of
\* order o and in the stock of book b.
C13_OnlyTouches(o, b) ==
    /\ DOMAIN books' = DOMAIN books
    /\ DOMAIN orders' = DOMAIN orders
    /\ \A x \in DOMAIN books :
          IF x = b THEN books'[x] = [books[x] EXCEPT !.stock = books'[x].stock]
                   ELSE books'[x] = books[x]
    /\ \A x \in DOMAIN orders :
          IF x = o THEN orders'[x] = [orders[x] EXCEPT !.status = orders'[x].status]
                   ELSE orders'[x] = orders[x]

\* The store with one more book beside the ones it has.
C13_OtherId == MaxBooks + 1
C13_WithOther ==
    DictSet(books, C13_OtherId,
            NewBook(C13_OtherId, [title |-> "Dune", author |-> "Herbert",
                                  stock |-> MaxStock]))

\* C13: no request changes a key set, a book's id, title or author, or an
\* order's id, book_id, qty or customer_name; confirm_order(o) changes at most
\* the status of o and the stock of o's book, update_stock(b, p) at most the
\* stock of b and no order, and each leaves every other book and order as it
\* was (a further book beside the addressed one included).  A step that
\* leaves both dicts as they were has nothing to show; of one that does not,
\* no request that explains it may address another book or order.
C13_Frame ==
    /\ [][/\ store' # store => C13_Immutable
          /\ (last'.op = "confirm_order" /\ store' # store) =>
                (\A o \in OrderIdArgs :
                    confirm_order(o) =>
                        C13_OnlyTouches(o, IF o \in DOMAIN orders
                                           THEN orders[o].book_id ELSE NoId))
          /\ (last'.op = "update_stock" /\ store' # store) =>
                (\A b \in BookIdArgs :
                    (~ C13_OnlyTouches(NoId, b)) =>
                        (~ \E p \in BookStockUpdate : update_stock(b, p)))]_vars
    /\ [](/\ \A o \in OrderIdArgs :
               confirm_order_handler(C13_WithOther, orders, o).books[C13_OtherId]
                   = C13_WithOther[C13_OtherId]
          /\ \A b \in BookIdArgs, p \in BookStockUpdate :
               update_stock_handler(C13_WithOther, b, p).books[C13_OtherId]
                   = C13_WithOther[C13_OtherId])

\* C13 witness: a confirm_order succeeded on one of two orders; the other is
\* still pending and both carry the qty, book and customer they were created
\* with.
C13_Witness ==
    /\ last = Served("confirm_order", Ok)
    /\ \E o1, o2 \in DOMAIN orders :
          /\ Confirmed(o1) /\ Pending(o2)
          /\ orders[o1].qty >= 1 /\ orders[o2].qty >= 1
          /\ orders[o1].book_id \in DOMAIN books
          /\ books[orders[o1].book_id].stock = 0

\* update_stock on the book of order o with delta = -qty of o and no set_stock.
C14_Adjust(o) ==
    update_stock_handler(books, orders[o].book_id,
                         [set_stock |-> None, delta |-> Some(0 - orders[o].qty)])

\* C14: for a pending order o, confirm_order(o) succeeds exactly when
\* update_stock(delta = -qty) on o's book is accepted, it answers 400
\* "insufficient stock" exactly when that update_stock answers 400 "stock
\* cannot go negative", and the books confirm_order leaves are the books that
\* update_stock leaves (on success the same decremented stock, on refusal the
\* books as they were).
C14_ConfirmIsAdjust ==
    \A o \in DOMAIN orders :
        Pending(o) =>
            LET c == confirm_order_handler(books, orders, o)
                u == C14_Adjust(o)
            IN  /\ c.resp = Ok <=> u.resp = Ok
                /\ c.resp = ErrInsufficient <=> u.resp = ErrNegative
                /\ c.resp \in {Ok, ErrInsufficient}
                /\ c.books = u.books
                /\ c.resp = Ok =>
                      c.books[orders[o].book_id].stock = StockOf(o) - orders[o].qty
                /\ ENABLED confirm_order(o)
                /\ ~ ENABLED
                      /\ confirm_order(o)
                      /\ ~ /\ books' = u.books
                           /\ last'.code = u.resp.code

\* C14 witness: a confirm_order was refused for insufficient stock, and the
\* order it was about is one that update_stock(delta = -qty) refuses too.
C14_Witness ==
    /\ last = Served("confirm_order", ErrInsufficient)
    /\ \E o \in DOMAIN orders :
          /\ Pending(o)
          /\ StockOf(o) < orders[o].qty
          /\ C14_Adjust(o).resp = ErrNegative

\* C17: the checks run in a fixed order and the first that fails answers,
\* with no state change: update_stock on an id that is no key of `books`
\* answers 404 whatever the payload is (both fields, neither, or one);
\* confirm_order on an id that is no key of `orders` answers 404; and
\* confirm_order on a confirmed order answers 400 "not pending", also when the
\* book's stock is below the order's qty.  Stated of every reachable state:
\* each such request is served, and no step it can take does otherwise.
C17_FirstFailureWins ==
    /\ \A b \in BookIdArgs \ DOMAIN books, p \in BookStockUpdate :
          \* books' and last' are functions of (books, b, p): the one step
          \* the request can take is this one
          ENABLED
             /\ update_stock(b, p)
             /\ last' = Served("update_stock", ErrNoBook)
             /\ books' = books
             /\ orders' = orders
    /\ \A o \in OrderIdArgs :
          (~ Pending(o)) =>
              /\ ENABLED confirm_order(o)
              /\ ~ ENABLED
                    /\ confirm_order(o)
                    /\ ~ /\ last' = Served("confirm_order",
                                            IF o \in DOMAIN orders
                                            THEN ErrNotPending
                                            ELSE HTTPException(404,
                                                     "Pesanan tidak ditemukan"))
                         /\ books' = books
                         /\ orders' = orders

\* C17 witness: a confirm_order of a confirmed order was refused as "not
\* pending" while the stock of its book is below its qty.
C17_Witness ==
    /\ last = Served("confirm_order", ErrNotPending)
    /\ \E o \in DOMAIN orders :
          /\ Confirmed(o)
          /\ StockOf(o) < orders[o].qty
          /\ \A x \in DOMAIN orders : x # o => Pending(x)

\* --------------------------------------- confirm_order in worker threads
\* FastAPI runs a "def" handler in a thread pool, so two confirm_order calls
\* can be in flight at once.  A thread's step is one statement group of
\* confirm_order; pc names the line the thread will execute next.

\* A store the serialized requests can build: every book created by some
\* create_book, every order created (pending) by some create_order.
RaceBooks ==
    {[b \in BookIds |-> NewBook(b, p[b])] : p \in [BookIds -> BookCreate]}

RaceOrders ==
    {[o \in OrderIds |-> NewOrder(o, p[o])] :
        p \in [OrderIds -> {q \in OrderCreate : q.book_id \in BookIds}]}

RaceInit ==
    /\ books \in RaceBooks
    /\ orders \in RaceOrders
    /\ last = NoResp
    /\ pc = [t \in Threads |-> "idle"]
    /\ t_order = [t \in Threads |-> NoId]
    /\ book_keys = [i \in 1 .. MaxBooks |-> i]
    /\ ledger = NoLedger

Return(t, resp) ==
    /\ last' = Served("confirm_order", resp)
    /\ pc' = [pc EXCEPT ![t] = "idle"]
    /\ t_order' = [t_order EXCEPT ![t] = NoId]

\* lines 106-111: look the order up, check that it is pending
t_check_status(t, order_id) ==
    /\ pc[t] = "idle"
    /\ UNCHANGED <<store, aux>>
    /\ IF order_id \notin DOMAIN orders
       THEN Return(t, HTTPException(404, "Pesanan tidak ditemukan"))
       ELSE IF NotPending(orders[order_id])
       THEN Return(t, HTTPException(400, "Pesanan sudah diproses / bukan pending"))
       ELSE /\ pc' = [pc EXCEPT ![t] = "L113"]
            /\ t_order' = [t_order EXCEPT ![t] = order_id]
            /\ UNCHANGED last

\* lines 113-118: look the book up, check that the stock covers the qty
t_check_stock(t) ==
    /\ pc[t] = "L113"
    /\ UNCHANGED <<store, aux>>
    /\ LET order == orders[t_order[t]]
       IN  IF order.book_id \notin DOMAIN books
           THEN Return(t, HTTPException(404, "Buku pada pesanan tidak ditemukan"))
           ELSE IF Insufficient(books[order.book_id], order)
           THEN Return(t, HTTPException(400, "Stok tidak mencukupi untuk konfirmasi"))
           ELSE /\ pc' = [pc EXCEPT ![t] = "L121"]
                /\ UNCHANGED <<last, t_order>>

t_decrement_IfPending(t) ==
    /\ pc[t] = "L121"
    /\ LET order == orders[t_order[t]]
       IN  books' = IF order.status = "pending"
                    THEN [books EXCEPT ![order.book_id] = Decrement(@, order)]
                    ELSE books
    /\ pc' = [pc EXCEPT ![t] = "L122"]
    /\ UNCHANGED <<orders, last, t_order, aux>>

\* line 121: book["stock"] -= order["qty"]
t_decrement(t) ==
    /\ pc[t] = "L121"
    /\ LET order == orders[t_order[t]]
       IN  books' = [books EXCEPT ![order.book_id] = Decrement(@, order)]
    /\ pc' = [pc EXCEPT ![t] = "L122"]
    /\ UNCHANGED <<orders, last, t_order, aux>>

\* lines 122-128: order["status"] = "confirmed", return 200
t_set_status(t) ==
    /\ pc[t] = "L122"
    /\ orders' = [orders EXCEPT ![t_order[t]] = Confirm(@)]
    /\ Return(t, Ok)
    /\ UNCHANGED <<books, aux>>

RaceNext ==
    \/ \E t \in Threads, order_id \in OrderIdArgs : t_check_status(t, order_id)
    \/ \E t \in Threads : t_check_stock(t)
    \/ \E t \in Threads : t_decrement(t)
    \/ \E t \in Threads : t_set_status(t)

SpecRace == RaceInit /\ [][RaceNext]_vars

\* ------------------------------------------------------------------------
\* Properties of the interleaved confirm_order requests (SpecRace)
\* ------------------------------------------------------------------------
OrderOf(t) == orders[t_order[t]]
BookOf(t) == OrderOf(t).book_id

\* Both threads have passed the stock check of line 117, for two different
\* orders on one book, neither has decremented yet, and the stock covers each
\* order but not both.
C10_BothChecked(t, u) ==
    /\ t # u
    /\ pc[t] = "L121" /\ pc[u] = "L121"
    /\ t_order[t] # t_order[u]
    /\ BookOf(t) = BookOf(u)
    /\ books[BookOf(t)].stock >= OrderOf(t).qty
    /\ books[BookOf(t)].stock >= OrderOf(u).qty
    /\ books[BookOf(t)].stock < OrderOf(t).qty + OrderOf(u).qty

\* C10: when two confirm_order requests for different pending orders on one
\* book have both passed the stock check before either decrements, and the
\* stock covers only one of them, both succeed and the stock ends below 0:
\* the first decrement leaves the other thread past its check with a stock
\* below its qty, a thread in that position decrements to a stock below 0,
\* every decrement is followed by a 200 response that confirms the order, and
\* nothing raises the stock again.
C10_DoubleSpend ==
    [][\A t \in Threads :
        /\ \A u \in Threads :
              (C10_BothChecked(t, u) /\ pc'[t] = "L122") =>
                  /\ pc'[u] = "L121"
                  /\ books'[BookOf(u)].stock < OrderOf(u).qty
        /\ (pc[t] = "L121" /\ pc'[t] # "L121") =>
              /\ pc'[t] = "L122"
              /\ books'[BookOf(t)].stock = books[BookOf(t)].stock - OrderOf(t).qty
              /\ books[BookOf(t)].stock < OrderOf(t).qty
                    => books'[BookOf(t)].stock < 0
        /\ (pc[t] = "L122" /\ pc'[t] # "L122") =>
              /\ last' = Served("confirm_order", Ok)
              /\ orders'[t_order[t]].status = "confirmed"
        /\ \A b \in DOMAIN books : books'[b].stock <= books[b].stock]_vars

\* C10 witness: both requests returned, both orders on the book are confirmed
\* and its stock is below 0.
C10_Witness ==
    /\ \A t \in Threads : pc[t] = "idle"
    /\ last = Served("confirm_order", Ok)
    /\ \E o1, o2 \in DOMAIN orders :
          /\ o1 # o2
          /\ Confirmed(o1) /\ Confirmed(o2)
          /\ orders[o1].book_id = orders[o2].book_id
          /\ StockOf(o1) < 0

\* Two requests in flight for one order, both past the status check of line
\* 110, the order still pending.
C16_BothPastStatus(t, u) ==
    /\ t # u
    /\ pc[t] # "idle" /\ pc[u] # "idle"
    /\ t_order[t] = t_order[u]
    /\ OrderOf(t).status = "pending"

\* The stock covered the order when request u checked it.
C16_StockSufficed(u) == pc[u] \in {"L121", "L122"}

\* C16 as stated: when two confirm_order requests for one pending order are
\* both past the status check before either has set the status, each of them
\* succeeds (taken for an order that the stock covered when the first of the
\* two checked it).
C16_AsStated ==
    [][\A t, u \in Threads :
          (C16_BothPastStatus(t, u) /\ C16_StockSufficed(u) /\ pc'[t] = "idle") =>
              last' = Served("confirm_order", Ok)]_vars

\* Two requests in flight for one order, both past the stock check of line
\* 117 as well.
C16_BothPastStock(t, u) ==
    /\ t # u
    /\ t_order[t] = t_order[u]
    /\ pc[t] \in {"L121", "L122"}
    /\ pc[u] \in {"L121", "L122"}

\* C16 (amended): when two confirm_order requests for one pending order are
\* both past the status check and the stock check before either has set the
\* status, both succeed and the stock is decremented by the order's qty
\* twice: a request past the stock check decrements by qty and then answers
\* 200 whether or not the order has been confirmed meanwhile, and a stock
\* changes in no other step, so neither decrement is undone.
C16_SameOrderTwice ==
    [][/\ \A t, u \in Threads :
            (C16_BothPastStock(t, u) /\ pc'[t] = "idle") =>
                /\ last' = Served("confirm_order", Ok)
                /\ orders'[t_order[t]].status = "confirmed"
       /\ \A t \in Threads :
            /\ (pc[t] = "L121" /\ pc'[t] # "L121") =>
                  /\ pc'[t] = "L122"
                  /\ books'[BookOf(t)].stock =
                         books[BookOf(t)].stock - OrderOf(t).qty
            /\ (pc[t] = "L122" /\ pc'[t] # "L122") =>
                  /\ pc'[t] = "idle"
                  /\ last' = Served("confirm_order", Ok)
                  /\ orders'[t_order[t]].status = "confirmed"
                  /\ books' = books
       /\ \A b \in DOMAIN books :
            \/ books'[b] = books[b]
            \/ \E t \in Threads :
                  /\ pc[t] = "L121" /\ pc'[t] = "L122"
                  /\ BookOf(t) = b
                  /\ books'[b].stock = books[b].stock - OrderOf(t).qty]_vars

\* C16 witness: both requests returned, one order is confirmed and no other
\* is, and the stock of its book is below 0 -- one order, two decrements.
C16_Witness ==
    /\ \A t \in Threads : pc[t] = "idle"
    /\ last = Served("confirm_order", Ok)
    /\ \E o \in DOMAIN orders :
          /\ Confirmed(o)
          /\ \A x \in DOMAIN orders : x # o => Pending(x)
          /\ StockOf(o) < 0

\* ------------------------------------------------------------------------
\* Serialized requests with a ledger of what they were asked and answered
\* (SpecLedger)
\* ------------------------------------------------------------------------
\* The ledger is written from the requests and their status codes alone.
\*   free              no update_stock was answered 200 so far in the run
\*   acct[b].expected  the stock asked for at the creation of b or by the last
\*                     set_stock on b answered 200, plus the deltas answered
\*                     200 since then, minus the qty of the confirm_order
\*                     answered 200 since then (kept as a running sum)
\*   acct[b].initial   the stock asked for at the creation of b; kept only
\*                     while the run is free of update_stock
Opened(l, b, stock) ==
    [l EXCEPT !.acct = DictSet(@, b, [expected |-> stock,
                                      initial |-> IF l.free THEN Some(stock)
                                                  ELSE None])]

Updated(l, b, stock) ==
    [free |-> FALSE,
     acct |-> [x \in DOMAIN l.acct |->
                  [expected |-> IF x = b THEN stock ELSE l.acct[x].expected,
                   initial |-> None]]]

Rebased(l, b, stock) == Updated(l, b, stock)
Adjusted(l, b, delta) == Updated(l, b, l.acct[b].expected + delta)
Sold(l, b, qty) == [l EXCEPT !.acct[b].expected = @ - qty]

create_book_L(payload) ==
    \E book_id \in uuid4(BookIds, DOMAIN books) :
        LET r == create_book_handler(books, book_id, payload)
        IN  /\ books' = r.books
            /\ book_keys' = KeysAfterSet(book_keys, book_id)
            /\ last' = Served("create_book", r.resp)
            /\ ledger' = Opened(ledger, book_id, payload.stock)
            /\ UNCHANGED <<orders, thr>>

update_stock_L(book_id, payload) ==
    LET r == update_stock_handler(books, book_id, payload)
    IN  /\ \A b \in DOMAIN r.books : r.books[b].stock <= MaxStock
        /\ books' = r.books
        /\ last' = Served("update_stock", r.resp)
        /\ ledger' = IF r.resp.code # 200 THEN ledger
                     ELSE IF payload.set_stock # None
                     THEN Rebased(ledger, book_id, Val(payload.set_stock))
                     ELSE Adjusted(ledger, book_id, Val(payload.delta))
        /\ UNCHANGED <<orders, thr, book_keys>>

create_order_L(payload) ==
    \E order_id \in IF payload.book_id \in DOMAIN books
                     THEN uuid4(OrderIds, DOMAIN orders)
                     ELSE {NoId} :
        LET r == create_order_handler(books, orders, order_id, payload)
        IN  /\ orders' = r.orders
            /\ last' = Served("create_order", r.resp)
            /\ UNCHANGED <<books, thr, aux>>

confirm_order_L(order_id) ==
    LET r == confirm_order_handler(books, orders, order_id)
    IN  /\ books' = r.books
        /\ orders' = r.orders
        /\ last' = Served("confirm_order", r.resp)
        /\ ledger' = IF r.resp.code # 200 THEN ledger
                     ELSE Sold(ledger, orders[order_id].book_id,
                               orders[order_id].qty)
        /\ UNCHANGED <<thr, book_keys>>

LedgerNext ==
    \/ \E payload \in BookCreate : create_book_L(payload)
    \/ \E book_id \in BookIdArgs, payload \in BookStockUpdate :
           update_stock_L(book_id, payload)
    \/ \E payload \in OrderCreate : create_order_L(payload)
    \/ \E order_id \in OrderIdArgs : confirm_order_L(order_id)

SpecLedger == Init /\ [][LedgerNext]_vars

\* The sum of qty over a set of orders.
RECURSIVE C15_SumQty(_)
C15_SumQty(S) ==
    IF S = {} THEN 0
    ELSE LET o == CHOOSE x \in S : TRUE
         IN  orders[o].qty + C15_SumQty(S \ {o})

C15_ConfirmedQty(b) ==
    C15_SumQty({o \in DOMAIN orders : orders[o].book_id = b /\ Confirmed(o)})

\* C15: for each book, stock = (stock at creation or at the last successful
\* set_stock) + (deltas accepted since then) - (qty of the orders on the book
\* confirmed since then); and in a run without a successful update_stock,
\* stock + (qty of all confirmed orders on the book) = the stock at creation,
\* so the confirmed qty is at most the stock at creation.
C15_Accounting ==
    /\ DOMAIN ledger.acct = DOMAIN books
    /\ \A b \in DOMAIN books :
          /\ books[b].stock = ledger.acct[b].expected
          /\ ledger.free =>
                /\ ledger.acct[b].initial # None
                /\ books[b].stock + C15_ConfirmedQty(b) = Val(ledger.acct[b].initial)
                /\ C15_ConfirmedQty(b) <= Val(ledger.acct[b].initial)

\* C15 witness: in a run without update_stock, the confirmed orders on a book
\* used up the stock it was created with.
C15_Witness ==
    /\ last = Served("confirm_order", Ok)
    /\ ledger.free
    /\ \E b \in DOMAIN books :
          /\ C15_ConfirmedQty(b) > 0
          /\ C15_ConfirmedQty(b) = Val(ledger.acct[b].initial)
          /\ books[b].stock = 0

\* ------------------------------------------------------------------------
\* list_books (SpecList)
\* ------------------------------------------------------------------------
\* A str is a sequence of one-character strings.
MaxList == 2         \* number of books in the stores list_books is run on

UpperCase == <<"A", "B", "C", "D", "E", "F", "G", "H", "I", "J", "K", "L", "M",
               "N", "O", "P", "Q", "R", "S", "T", "U", "V", "W", "X", "Y", "Z">>
LowerCase == <<"a", "b", "c", "d", "e", "f", "g", "h", "i", "j", "k", "l", "m",
               "n", "o", "p", "q", "r", "s", "t", "u", "v", "w", "x", "y", "z">>

\* str.lower() on ASCII text
LowerChar(c) ==
    IF \E i \in 1 .. Len(UpperCase) : UpperCase[i] = c
    THEN LowerCase[CHOOSE i \in 1 .. Len(UpperCase) : UpperCase[i] = c]
    ELSE c
Lower(str) == [i \in 1 .. Len(str) |-> LowerChar(str[i])]

\* `sub in str`
In(sub, str) ==
    \E i \in 0 .. Len(str) - Len(sub) : SubSeq(str, i + 1, i + Len(sub)) = sub

ListTitles == {<<"D", "u", "n", "e">>, <<"S", "A", "N", "D">>}
ListAuthors == {<<"H", "e", "r", "b", "e", "r", "t">>, <<"S", "a", "n", "d", "e", "r", "s">>}
\* list_books never reads the stock, so the listed books all carry the same one.
ListBookCreate == [title : ListTitles, author : ListAuthors, stock : {0}]
\* q: Optional[str] = None
Queries ==
    {None, Some(<<>>), Some(<<"d", "u">>), Some(<<"D", "U">>), Some(<<"S", "a">>),
     Some(<<"e", "r">>), Some(<<"u", "n", "e", "s">>), Some(<<"x">>)}

\* line 44: q_lower = q.lower()
QLower_Raw(q) == q
QLower(q) == Lower(q)

\* line 47: the test of the list comprehension
Matches(b, q_lower) == In(q_lower, Lower(b.title)) \/ In(q_lower, Lower(b.author))

list_books_handler(bks, keys, q) ==
    LET data == [i \in 1 .. Len(keys) |-> bks[keys[i]]]     \* list(books.values())
        Keep(b) == Matches(b, QLower(Val(q)))
        items == IF q # None /\ Val(q) # <<>>                 \* if q:
                 THEN SelectSeq(data, Keep)
                 ELSE data
    IN  [op |-> "list_books", code |-> 200, detail |-> "ok",
         items |-> items, count |-> Len(items)]

list_books(q) ==
    /\ last' = list_books_handler(books, book_keys, q)
    /\ UNCHANGED <<store, thr, aux>>

\* The stores list_books is run on: up to MaxList books, created by any
\* create_book requests; uuid4 values are random, so the insertion order is
\* any order of the ids.
ListInit ==
    /\ \E n \in 0 .. MaxList :
          /\ books \in {[i \in 1 .. n |-> NewBook(i, p[i])] :
                            p \in [1 .. n -> ListBookCreate]}
          /\ book_keys \in {k \in [1 .. n -> 1 .. n] :
                                \A i, j \in 1 .. n : k[i] = k[j] => i = j}
    /\ orders = <<>>
    /\ last = NoResp
    /\ pc = [t \in Threads |-> "idle"]
    /\ t_order = [t \in Threads |-> NoId]
    /\ ledger = NoLedger

ListNext == \E q \in Queries : list_books(q)

SpecList == ListInit /\ [][ListNext]_vars

\* Two characters are the same letter up to case.
C12_SameLetter(a, b) ==
    \/ a = b
    \/ \E i \in 1 .. Len(UpperCase) :
          {a, b} = {UpperCase[i], LowerCase[i]}

\* str contains q as a case-insensitive substring.
C12_Contains(str, q) ==
    \E i \in 0 .. Len(str) - Len(q) :
        \A j \in 1 .. Len(q) : C12_SameLetter(str[i + j], q[j])

\* The positions, in insertion order, of the books list_books(q) is to return.
C12_Wanted(q) ==
    {i \in 1 .. Len(book_keys) :
        \/ q = {}
        \/ q = {<<>>}
        \/ \E str \in q : \/ C12_Contains(books[book_keys[i]].title, str)
                            \/ C12_Contains(books[book_keys[i]].author, str)}

\* C12: list_books(q) with q absent or empty returns all books; with a
\* non-empty q exactly the books whose title or author contains q as a
\* case-insensitive substring; the items are in insertion order, count is the
\* number of items, and no state changes.  Stated of every reachable state:
\* the request is served, and no step it can take does otherwise.
C12_ListBooks ==
    \A q \in Queries :
        LET wanted == C12_Wanted(q)
            \* the k-th wanted position, counted in insertion order
            Nth(k) == CHOOSE i \in wanted : Cardinality({j \in wanted : j < i}) = k - 1
        IN  /\ ENABLED list_books(q)
            /\ ~ ENABLED
                  /\ list_books(q)
                  /\ ~ /\ last'.code = 200
                       /\ last'.count = Len(last'.items)
                       /\ Len(last'.items) = Cardinality(wanted)
                       /\ \A k \in 1 .. Len(last'.items) :
                             last'.items[k] = books[book_keys[Nth(k)]]
                       /\ books' = books
                       /\ orders' = orders
                       /\ book_keys' = book_keys

\* C12 witness: of two books, inserted in the order 2, 1, a query returned
\* exactly one.
C12_Witness ==
    /\ last.op = "list_books"
    /\ last.count = 1
    /\ book_keys = <<2, 1>>
    /\ last.items[1] = books[2]

====
